---- MODULE Spec2Model ----
(***************************************************************************)
(* Model of the video background remover pipeline:                         *)
(*   video_background_remover.py  VideoBackgroundRemover                   *)
(*   batch_processor.py           BatchVideoProcessor                      *)
(* One BatchVideoProcessor instance receives process_batch calls; each     *)
(* call discovers files and runs process_single_video / process_video on   *)
(* every file, step by step (open, one decoded frame, one segmented frame, *)
(* one muxed frame, the ffmpeg call).                                      *)
(***************************************************************************)
EXTENDS Integers, Sequences, FiniteSets, TLC

(* ------------------------------ bounds -------------------------------- *)
\* most frames a container decodes to
MaxFrames == 2
\* most process_single_video jobs one BatchVideoProcessor instance runs
MaxJobs == 2

(* --------------------------- program constants ------------------------ *)
\* the width of the zero padded ordinal in f"frame_{frame_count:06d}.png"
PadWidth == 6

(* ------------------------------ values -------------------------------- *)
\* Python's None for max_frames / output_webm; an int cap m is <<m>>
None == <<>>

\* file names are sequences of characters
a_mp4 == <<"a", ".", "m", "p", "4">>
a_avi == <<"a", ".", "a", "v", "i">>
b_mp4 == <<"b", ".", "m", "p", "4">>
c_txt == <<"c", ".", "t", "x", "t">>
AllFiles == {a_mp4, a_avi, b_mp4, c_txt}

dot_mp4 == <<".", "m", "p", "4">>
dot_avi == <<".", "a", "v", "i">>
dot_mov == <<".", "m", "o", "v">>
dot_mkv == <<".", "m", "k", "v">>
dot_wmv == <<".", "w", "m", "v">>
dot_flv == <<".", "f", "l", "v">>
dot_webm == <<".", "w", "e", "b", "m">>
DefaultExtensions == <<dot_mp4, dot_avi, dot_mov, dot_mkv, dot_wmv, dot_flv, dot_webm>>
ExtensionChoices == {None, <<dot_mp4>>}

\* the caps a caller can pass: None, or any int (argparse type=int)
Caps == {None} \cup {<<m>> : m \in -1..(MaxFrames + 1)}

\* code points of the characters used, for str comparison in sorted()
Ord(c) == CASE c = "." -> 46 [] c = "4" -> 52 [] c = "a" -> 97 [] c = "b" -> 98
            [] c = "c" -> 99 [] c = "e" -> 101 [] c = "f" -> 102 [] c = "i" -> 105
            [] c = "k" -> 107 [] c = "l" -> 108 [] c = "m" -> 109 [] c = "o" -> 111
            [] c = "p" -> 112 [] c = "t" -> 116 [] c = "v" -> 118 [] c = "w" -> 119
            [] c = "x" -> 120

(* ------------------------- pure helpers ------------------------------- *)
\* str < str
RECURSIVE StrLess(_, _)
StrLess(s, t) ==
    IF s = <<>> THEN t # <<>>
    ELSE IF t = <<>> THEN FALSE
    ELSE IF Ord(Head(s)) # Ord(Head(t)) THEN Ord(Head(s)) < Ord(Head(t))
    ELSE StrLess(Tail(s), Tail(t))

\* sorted(list(set(xs))) of a set of strings
RECURSIVE SortedList(_)
SortedList(S) ==
    IF S = {} THEN <<>>
    ELSE LET m == CHOOSE x \in S : \A y \in S \ {x} : StrLess(x, y)
         IN <<m>> \o SortedList(S \ {m})

\* name ends with ext: Path.glob(f"**/*{ext}")
GlobMatches(name, ext) ==
    /\ Len(name) >= Len(ext)
    /\ SubSeq(name, Len(name) - Len(ext) + 1, Len(name)) = ext

\* the index of the last "." of a name, 0 when there is none
LastDot(name) ==
    LET D == {i \in 1..Len(name) : name[i] = "."}
    IN IF D = {} THEN 0 ELSE CHOOSE i \in D : \A j \in D : j <= i

\* Path(video_path).stem
Stem(name) ==
    LET i == LastDot(name)
    IN IF 1 < i /\ i < Len(name) THEN SubSeq(name, 1, i - 1) ELSE name

\* the decimal digits of a natural number, most significant first
RECURSIVE Digits(_)
Digits(n) == IF n < 10 THEN <<n>> ELSE Digits(n \div 10) \o <<n % 10>>

\* mutant of Pad6: the ordinal without zero padding, f"{i}"
PadNone(i) == Digits(i)

\* f"{i:06d}"
Pad6(i) ==
    LET d == Digits(i)
    IN IF Len(d) >= PadWidth THEN d
       ELSE [k \in 1..(PadWidth - Len(d)) |-> 0] \o d

\* f"frame_{frame_count:06d}.png"
FrameName(i) == <<"frame_", Pad6(i), ".png">>

\* f"processed_frame_{i:06d}.png"
ProcessedName(i) == <<"processed_frame_", Pad6(i), ".png">>

\* os.path.join(os.path.join(output_dir, sub), name)
Join(dir, sub, name) == <<dir, sub, name>>

\* os.path.dirname of a joined path
Dirname(path) == <<path[1], path[2]>>

\* os.path.join(output_dir, 'output_transparent.mp4') / '.webm'
Mp4Path(dir) == <<dir, ".", <<"output_transparent", <<>>, ".mp4">>>>
WebmPath(dir) == <<dir, ".", <<"output_transparent", <<>>, ".webm">>>>

\* the file system after writing content c at path p (an existing file is replaced)
WriteFile(f, p, c) == [q \in DOMAIN f \cup {p} |-> IF q = p THEN c ELSE f[q]]

\* the ordinals n for which name(n) exists in directory <<dir, sub>>
Listing(f, dir, sub, Name(_)) ==
    {n \in 0..(MaxFrames + 1) : Join(dir, sub, Name(n)) \in DOMAIN f}

\* mutant of Truthy: `max_frames is not None and ...`
TruthyNotNone(mf) == mf # None

\* `max_frames and ...`: None and 0 are falsy
Truthy(mf) == mf # None /\ mf[1] # 0

\* if max_frames and max_frames < total_frames: total_frames = max_frames
ClampTotal(mf, total) == IF Truthy(mf) /\ mf[1] < total THEN mf[1] ELSE total

\* mutant of CapReached: the cap test off by one, frame_count > max_frames
CapReachedLate(mf, fc) == Truthy(mf) /\ fc > mf[1]

\* (max_frames and frame_count >= max_frames)
CapReached(mf, fc) == Truthy(mf) /\ fc >= mf[1]

\* find_video_files: glob per extension, set(), sorted()
find_video_files(files, extensions) ==
    LET exts == IF extensions = None THEN DefaultExtensions ELSE extensions
        found == {f \in files : \E k \in 1..Len(exts) : GlobMatches(f, exts[k])}
    IN SortedList(found)


\* cap.get(CAP_PROP_FPS), CAP_PROP_FRAME_WIDTH, CAP_PROP_FRAME_HEIGHT of a container
VideoMeta(video) ==
    IF Head(video) = "a" THEN [fps |-> 10, width |-> 64, height |-> 48]
    ELSE [fps |-> 30, width |-> 32, height |-> 32]

(* ------------------------------- state -------------------------------- *)
VARIABLES
    max_frames,        \* BatchVideoProcessor.max_frames
    results,           \* BatchVideoProcessor.results
    bpc,               \* process_batch: "idle" or "running"
    video_files,       \* process_batch: the discovered list
    bi,                \* process_batch: 1-based index of the next file
    create_webm,       \* process_batch: the create_webm argument
    total_start_time,  \* process_batch: total_start_time
    stats,             \* the report the last process_batch call returned
    report,            \* batch_processing_report.json, None while absent
    pc,                \* process_video: position of the current run
    input_video,       \* process_single_video: video_path
    output_dir,        \* process_single_video: output_dir
    start_time,        \* process_single_video: start_time
    now,               \* time.time()
    cap_n,             \* the open capture: frames it decodes in all
    cap_pos,           \* the open capture: frames cap.read() has consumed
    cap_frames,        \* the open capture: CAP_PROP_FRAME_COUNT, what the header declares
    total_frames,      \* extract_frames: total_frames
    frame_count,       \* extract_frames: frame_count
    extracted_frames,  \* extract_frames: extracted_frames / frames_list
    meta,              \* extract_frames: fps, width, height
    processed_frames,  \* process_frames: processed_frames
    asm_i,             \* create_transparent_video: frames consumed
    warned,            \* create_transparent_video: ordinals logged as unreadable
    output_webm,       \* process_video: output_webm
    ret,               \* process_video: the returned result dict
    raised,            \* str(e) of the exception in flight, "" if none
    fs,                \* the files under the output directory: path -> content
    segCalls,          \* history: <<index, it returned>> per remove_background_from_frame call of this run
    asmCalls,          \* history: create_transparent_video calls in this run
    ffmpegCalls,       \* history: the exit status of each os.system(ffmpeg) call of this run
    written,           \* history: the paths this run wrote, in order
    runs,              \* history: process_video runs started in this process_batch call
    failures,          \* history: process_video runs that raised in this process_batch call
    tree,              \* find_video_files: the input directory, [exists, files]
    scan,              \* find_video_files: per call, its extensions, loop index, list and return value
    args,              \* batch main: the parsed command line
    mpc,               \* batch main: its position, "none" when the processor is used as a library
    exit_code,         \* batch main: <<the value returned to exit()>>, None while running
    html,              \* batch_processing_report.html, None while absent
    processing,        \* VideoBackgroundRemoverGUI.processing
    process_button,    \* VideoBackgroundRemoverGUI.process_button: its state
    stop_button,       \* VideoBackgroundRemoverGUI.stop_button: its state
    gpc,               \* VideoBackgroundRemoverGUI.process_thread: "none", "started", "running",
                       \* then the callback it queued: "completed" or "failed"
    threads,           \* history: the number of worker threads that are alive
    stop_at,           \* history: <<segmentation calls made>> when stop was clicked, None before
    img,               \* create_transparent_video: one pixel of img, its channels in order
    out,               \* create_transparent_video: the pixel handed to out.write, None before
    session,           \* VideoBackgroundRemover.session: <<handle>>, None before __init__
    sessions,          \* history: the number of sessions new_session has created
    usedSessions       \* history: the session arguments of the rembg.remove calls

batchVars == <<max_frames, results, bpc, video_files, bi, create_webm, total_start_time,
               stats, report>>
extractVars == <<cap_n, cap_pos, cap_frames, total_frames, frame_count, extracted_frames, meta>>
jobVars == <<pc, input_video, output_dir, start_time, extractVars, processed_frames,
             asm_i, warned, output_webm, ret, raised>>
histVars == <<segCalls, asmCalls, ffmpegCalls, written, runs, failures>>
findVars == <<tree, scan>>
cliVars == <<args, mpc, exit_code, html>>
guiVars == <<processing, process_button, stop_button, gpc, threads, stop_at>>
pixVars == <<img, out>>
frontVars == <<findVars, cliVars, guiVars, pixVars>>
sessVars == <<session, sessions, usedSessions>>
vars == <<batchVars, jobVars, now, fs, histVars, frontVars, sessVars>>

NoMeta == [fps |-> 0, width |-> 0, height |-> 0]

\* a constructed BatchVideoProcessor, before any call
Constructed ==
    /\ max_frames \in Caps
    /\ results = <<>>
    /\ bpc = "idle"
    /\ video_files = <<>>
    /\ bi = 1
    /\ create_webm = TRUE
    /\ total_start_time = 0
    /\ stats = None
    /\ report = None
    /\ pc = "Pending"
    /\ input_video = <<>>
    /\ output_dir = <<>>
    /\ start_time = 0
    /\ now = 0
    /\ cap_n = 0
    /\ cap_pos = 0
    /\ cap_frames = 0
    /\ total_frames = 0
    /\ frame_count = 0
    /\ extracted_frames = <<>>
    /\ meta = NoMeta
    /\ processed_frames = <<>>
    /\ asm_i = 0
    /\ warned = {}
    /\ output_webm = None
    /\ ret = None
    /\ raised = ""
    /\ segCalls = <<>>
    /\ asmCalls = 0
    /\ ffmpegCalls = <<>>
    /\ written = <<>>
    /\ runs = <<>>
    /\ failures = 0

\* find_video_files is not called on its own
FindIdle ==
    /\ tree = [exists |-> TRUE, files |-> {}]
    /\ scan = <<>>

\* the processor is used as a library: batch main is not running
CliIdle ==
    /\ args = <<>>
    /\ mpc = "none"
    /\ exit_code = None
    /\ html = None

\* VideoBackgroundRemoverGUI.__init__: processing = False, no thread
GuiIdle ==
    /\ processing = FALSE
    /\ process_button = "normal"
    /\ stop_button = "disabled"
    /\ gpc = "none"
    /\ threads = 0
    /\ stop_at = None

\* no pixel is in hand
PixIdle ==
    /\ img = <<>>
    /\ out = None

FrontIdle == FindIdle /\ CliIdle /\ GuiIdle /\ PixIdle

\* before VideoBackgroundRemover.__init__ has run
NoSession ==
    /\ session = None
    /\ sessions = 0
    /\ usedSessions = {}

\* after VideoBackgroundRemover.__init__ returned: self.session = new_session(model_name)
SessionLoaded ==
    /\ session = <<1>>
    /\ sessions = 1
    /\ usedSessions = {}

\* the try block of VideoBackgroundRemover.__init__: new_session returns a new
\* handle, or raises and the exception is raised again
VideoBackgroundRemover_init(ok) ==
    /\ sessions' = IF ok THEN sessions + 1 ELSE sessions
    /\ session' = IF ok THEN <<sessions + 1>> ELSE session
    /\ UNCHANGED usedSessions

\* a fresh instance and an empty output directory
Init ==
    /\ Constructed
    /\ SessionLoaded
    /\ fs = <<>>
    /\ FrontIdle

(* ------------------------- batch_processor.py ------------------------- *)
\* return {'total': 0, 'success': 0, 'failed': 0, 'results': []}
EmptyReport == [total |-> 0, success |-> 0, failed |-> 0, results |-> <<>>]

\* process_batch up to the loop: discovery, the early return when nothing is found
process_batch(files, cw, extensions) ==
    LET found == find_video_files(files, extensions)
    IN /\ bpc = "idle"
       /\ runs' = <<>>
       /\ failures' = 0
       /\ IF found = <<>>
          THEN /\ stats' = EmptyReport
               /\ UNCHANGED <<bpc, video_files, bi, create_webm, total_start_time>>
          ELSE /\ bpc' = "running"
               /\ video_files' = found
               /\ bi' = 1
               /\ create_webm' = cw
               /\ total_start_time' = now
               /\ UNCHANGED stats
       /\ UNCHANGED <<max_frames, results, report, jobVars, now, fs,
                      segCalls, asmCalls, ffmpegCalls, written>>
       /\ UNCHANGED <<findVars, guiVars, pixVars>>
    /\ UNCHANGED sessVars

\* process_single_video up to the call of process_video, and process_video up to
\* the call of extract_frames
process_single_video ==
    /\ bpc = "running"
    /\ bi <= Len(video_files)
    /\ pc = "Pending"
    /\ input_video' = video_files[bi]
    /\ output_dir' = Stem(video_files[bi])
    /\ start_time' = now
    /\ pc' = "extract_open"
    /\ cap_n' = 0
    /\ cap_pos' = 0
    /\ cap_frames' = 0
    /\ total_frames' = 0
    /\ frame_count' = 0
    /\ extracted_frames' = <<>>
    /\ meta' = NoMeta
    /\ processed_frames' = <<>>
    /\ asm_i' = 0
    /\ warned' = {}
    /\ output_webm' = None
    /\ ret' = None
    /\ raised' = ""
    /\ segCalls' = <<>>
    /\ asmCalls' = 0
    /\ ffmpegCalls' = <<>>
    /\ written' = <<>>
    /\ runs' = Append(runs, video_files[bi])
    /\ UNCHANGED <<batchVars, now, fs, failures>>
    /\ UNCHANGED frontVars
    /\ UNCHANGED sessVars


(* -------------------- video_background_remover.py --------------------- *)
\* the frame the capture decodes at position k of a container
RawFrame(video, k) == <<"raw", video, k>>

\* rembg.remove applied to the bytes of a frame
Segmented(content) == <<"rgba", content, 0>>

\* the opaque frame handed to the encoder for a processed frame
Flattened(content) == <<"bgr", content, 0>>

\* mutant of CannotOpenTo: the failed open is reported and the read loop is entered
CannotOpenReads == "extract_read"

\* where process_video is after `raise ValueError` at line 89: the exception leaves
\* extract_frames and process_video through the handler at lines 316-318
CannotOpenTo == "Failed"

\* extract_frames: open the container, read its metadata, clamp total_frames; the
\* header declares t frames and cap.read() decodes n of them
extract_frames_open(opens, t, n) ==
    /\ pc = "extract_open"
    /\ now' = now + 1
    /\ IF ~opens
       THEN /\ raised' = "cannot open video file"
            /\ pc' = CannotOpenTo
            /\ UNCHANGED extractVars
       ELSE /\ cap_n' = n
            /\ cap_pos' = 0
            /\ cap_frames' = t
            /\ meta' = VideoMeta(input_video)
            /\ total_frames' = ClampTotal(max_frames, t)
            /\ frame_count' = 0
            /\ extracted_frames' = <<>>
            /\ pc' = "extract_read"
            /\ UNCHANGED raised
    /\ UNCHANGED <<batchVars, input_video, output_dir, start_time, processed_frames,
                   asm_i, warned, output_webm, ret, fs, histVars>>
    /\ UNCHANGED frontVars
    /\ UNCHANGED sessVars

\* mutant of ReadFailedTo: a frame that does not decode is an error of the job
ReadFailedRaises == "Failed"

\* where process_video is after cap.read() returned ret = False: `break` at line 111,
\* extract_frames returns what it has and process_frames is called
ReadFailedTo == "segment"

\* extract_frames: one iteration of the while loop; on break, cap.release() and return
extract_frames_read ==
    /\ pc = "extract_read"
    /\ now' = now + 1
    /\ LET got == cap_pos < cap_n
           frame_path == Join(output_dir, "frames", FrameName(frame_count))
       IN IF ~got \/ CapReached(max_frames, frame_count)
          THEN /\ pc' = IF got THEN "segment" ELSE ReadFailedTo
               /\ cap_pos' = IF got THEN cap_pos + 1 ELSE cap_pos
               /\ UNCHANGED <<frame_count, extracted_frames, fs, written>>
          ELSE /\ fs' = WriteFile(fs, frame_path, RawFrame(input_video, cap_pos))
               /\ written' = Append(written, frame_path)
               /\ extracted_frames' = Append(extracted_frames, frame_path)
               /\ frame_count' = frame_count + 1
               /\ cap_pos' = cap_pos + 1
               /\ UNCHANGED pc
    /\ UNCHANGED <<cap_n, cap_frames, total_frames>>
    /\ UNCHANGED <<batchVars, input_video, output_dir, start_time, meta, processed_frames,
                   asm_i, warned, output_webm, ret, raised,
                   segCalls, asmCalls, ffmpegCalls, runs, failures>>
    /\ UNCHANGED frontVars
    /\ UNCHANGED sessVars

\* remove_background_from_frame, when rembg.remove returns
remove_background_from_frame(f, frame_path, output_path) ==
    WriteFile(f, output_path, Segmented(f[frame_path]))

\* mutant of EnumerateIndex: enumerate(frames_list, 1)
EnumerateFromOne(k) == k + 1

\* enumerate(frames_list): the index paired with the element at 0-based position k
EnumerateIndex(k) == k

\* mutant of LoopDone: the loop is left after its first iteration
LoopDoneEarly(k, list) == k >= 1 \/ k = Len(list)

\* a for loop over a list has run k iterations and the list is exhausted
LoopDone(k, list) == k = Len(list)

\* mutant of ReraisedTo: the exception is logged and not re-raised, the loop goes on
ReraisedToLoop == "segment"

\* where process_video is after remove_background_from_frame logged an exception:
\* `raise` at line 149, re-raised by process_video's handler at line 318
ReraisedTo == "Failed"

\* mutant of SessionArg: remove(input_data), which falls back to a session of its own
SessionArgDefault(sess) == None

\* the keyword argument session=self.session of rembg.remove
SessionArg(sess) == sess

\* process_frames: one iteration of the for loop; after the last one, return
process_frames(ok) ==
    /\ pc = "segment"
    /\ now' = now + 1
    /\ LET k == Len(processed_frames)
           i == EnumerateIndex(k)
           frame_path == extracted_frames[k + 1]
           output_path == Join(output_dir, "processed_frames", ProcessedName(i))
       IN IF LoopDone(k, extracted_frames)
          THEN /\ pc' = "asm_open"
               /\ UNCHANGED <<processed_frames, fs, raised, segCalls, written, usedSessions>>
          ELSE /\ segCalls' = Append(segCalls, <<k, ok>>)
               /\ usedSessions' = usedSessions \cup {SessionArg(session)}
               /\ IF ok
                  THEN /\ fs' = remove_background_from_frame(fs, frame_path, output_path)
                       /\ processed_frames' = Append(processed_frames, output_path)
                       /\ written' = Append(written, output_path)
                       /\ UNCHANGED <<pc, raised>>
                  ELSE /\ raised' = "segmentation failed"
                       /\ pc' = ReraisedTo
                       /\ UNCHANGED <<processed_frames, fs, written>>
    /\ UNCHANGED <<batchVars, input_video, output_dir, start_time, extractVars,
                   asm_i, warned, output_webm, ret, asmCalls, ffmpegCalls, runs, failures>>
    /\ UNCHANGED <<frontVars, session, sessions>>

\* mutant of NotOpenedTo: the error is logged and create_transparent_video returns
NotOpenedReturns == "webm"

\* where process_video is after `raise ValueError` at line 205, re-raised at line 318
NotOpenedTo == "Failed"

\* create_transparent_video: cv2.VideoWriter(...) and the isOpened check
create_transparent_video_open(ok) ==
    /\ pc = "asm_open"
    /\ now' = now + 1
    /\ asmCalls' = asmCalls + 1
    /\ IF ok
       THEN /\ fs' = WriteFile(fs, Mp4Path(output_dir), <<"mp4", <<>>, meta>>)
            /\ written' = Append(written, Mp4Path(output_dir))
            /\ asm_i' = 0
            /\ pc' = "asm_write"
            /\ UNCHANGED raised
       ELSE /\ raised' = "cannot create video file"
            /\ pc' = NotOpenedTo
            /\ UNCHANGED <<fs, asm_i, written>>
    /\ UNCHANGED <<batchVars, input_video, output_dir, start_time, extractVars,
                   processed_frames, warned, output_webm, ret,
                   segCalls, ffmpegCalls, runs, failures>>
    /\ UNCHANGED frontVars
    /\ UNCHANGED sessVars

\* mutant of Warned: the unreadable frame is skipped without a word
WarnedNot(w, i) == w

\* logger.warning for the frame of ordinal i that cv2.imread could not read
Warned(w, i) == w \cup {i}

\* create_transparent_video: one iteration of the for loop; after the last, out.release()
create_transparent_video_frame(readable) ==
    /\ pc = "asm_write"
    /\ now' = now + 1
    /\ IF LoopDone(asm_i, processed_frames)
       THEN /\ pc' = "webm"
            /\ UNCHANGED <<asm_i, warned, fs>>
       ELSE /\ asm_i' = asm_i + 1
            /\ IF readable
               THEN /\ fs' = WriteFile(fs, Mp4Path(output_dir),
                               <<"mp4",
                                 Append(fs[Mp4Path(output_dir)][2],
                                        Flattened(fs[processed_frames[asm_i + 1]])),
                                 meta>>)
                    /\ UNCHANGED warned
               ELSE /\ warned' = Warned(warned, asm_i)
                    /\ UNCHANGED fs
            /\ UNCHANGED pc
    /\ UNCHANGED <<batchVars, input_video, output_dir, start_time, extractVars,
                   processed_frames, output_webm, ret, raised, histVars>>
    /\ UNCHANGED frontVars
    /\ UNCHANGED sessVars

\* what ffmpeg reads through 'processed_frame_%06d.png': the files numbered 0, 1, ...
\* of the directory, up to the first missing number
RECURSIVE PatternFrames(_, _, _)
PatternFrames(f, dir, n) ==
    LET path == <<dir[1], dir[2], ProcessedName(n)>>
    IN IF path \in DOMAIN f THEN <<f[path]>> \o PatternFrames(f, dir, n + 1) ELSE <<>>

\* what process_video keeps in output_webm after os.system(cmd) returned status
WebmAfterSystem(path, status) == path

\* process_video step 4: the optional WebM export
create_webm_with_transparency(status) ==
    /\ pc = "webm"
    /\ now' = now + 1
    /\ pc' = "return"
    /\ IF ~create_webm
       THEN /\ output_webm' = None
            /\ UNCHANGED <<fs, ffmpegCalls, written>>
       ELSE IF processed_frames = <<>>
       THEN \* processed_frames[0] raises IndexError, caught at line 290
            /\ output_webm' = None
            /\ UNCHANGED <<fs, ffmpegCalls, written>>
       ELSE /\ ffmpegCalls' = Append(ffmpegCalls, status)
            /\ output_webm' = WebmAfterSystem(WebmPath(output_dir), status)
            /\ IF status = 0
               THEN /\ fs' = WriteFile(fs, WebmPath(output_dir),
                               <<"webm", PatternFrames(fs, Dirname(processed_frames[1]), 0),
                                 meta>>)
                    /\ written' = Append(written, WebmPath(output_dir))
               ELSE UNCHANGED <<fs, written>>
    /\ UNCHANGED <<batchVars, input_video, output_dir, start_time, extractVars,
                   processed_frames, asm_i, warned, ret, raised,
                   segCalls, asmCalls, runs, failures>>
    /\ UNCHANGED frontVars
    /\ UNCHANGED sessVars

\* mutant of ResultDict: the resolution is reported as (height, width)
ResultDictTransposed ==
    [input_video |-> input_video,
     output_dir |-> output_dir,
     frame_count |-> frame_count,
     fps |-> meta.fps,
     resolution |-> <<meta.height, meta.width>>,
     output_mp4 |-> Mp4Path(output_dir),
     output_webm |-> output_webm,
     frames_dir |-> <<output_dir, "frames">>,
     processed_frames_dir |-> <<output_dir, "processed_frames">>]

\* the result dict of process_video
ResultDict ==
    [input_video |-> input_video,
     output_dir |-> output_dir,
     frame_count |-> frame_count,
     fps |-> meta.fps,
     resolution |-> <<meta.width, meta.height>>,
     output_mp4 |-> Mp4Path(output_dir),
     output_webm |-> output_webm,
     frames_dir |-> <<output_dir, "frames">>,
     processed_frames_dir |-> <<output_dir, "processed_frames">>]

\* process_video: build the result and return it
process_video_return ==
    /\ pc = "return"
    /\ ret' = ResultDict
    /\ pc' = "Succeeded"
    /\ UNCHANGED <<batchVars, input_video, output_dir, start_time, extractVars,
                   processed_frames, asm_i, warned, output_webm, raised, now, fs, histVars>>
    /\ UNCHANGED frontVars
    /\ UNCHANGED sessVars

\* process_single_video, try branch: result.update(...)
SuccessResult ==
    ret @@ [status |-> "success",
            processing_time |-> now - start_time,
            video_name |-> output_dir]

\* mutant of FailedResult: the message of the exception is dropped
FailedResultGeneric ==
    [status |-> "failed",
     error |-> "failed",
     processing_time |-> now - start_time,
     video_name |-> output_dir,
     input_video |-> input_video,
     output_dir |-> output_dir]

\* process_single_video, except branch
FailedResult ==
    [status |-> "failed",
     error |-> raised,
     processing_time |-> now - start_time,
     video_name |-> output_dir,
     input_video |-> input_video,
     output_dir |-> output_dir]

\* process_video returned: process_single_video returns, process_batch appends
process_single_video_return ==
    /\ pc = "Succeeded"
    /\ results' = Append(results, SuccessResult)
    /\ bi' = bi + 1
    /\ pc' = "Pending"
    /\ UNCHANGED <<max_frames, bpc, video_files, create_webm, total_start_time, stats,
                   report, input_video, output_dir, start_time, extractVars,
                   processed_frames, asm_i, warned, output_webm, ret, raised, now, fs,
                   histVars>>
    /\ UNCHANGED frontVars
    /\ UNCHANGED sessVars

\* process_video raised: process_single_video catches, process_batch appends
process_single_video_except ==
    /\ pc = "Failed"
    /\ results' = Append(results, FailedResult)
    /\ bi' = bi + 1
    /\ pc' = "Pending"
    /\ failures' = failures + 1
    /\ UNCHANGED <<max_frames, bpc, video_files, create_webm, total_start_time, stats,
                   report, input_video, output_dir, start_time, extractVars,
                   processed_frames, asm_i, warned, output_webm, ret, raised, now, fs,
                   segCalls, asmCalls, ffmpegCalls, written, runs>>
    /\ UNCHANGED frontVars
    /\ UNCHANGED sessVars

\* sum(1 for r in self.results if r['status'] == 'success')
SuccessCount(rs) == Cardinality({k \in 1..Len(rs) : rs[k].status = "success"})

\* the stats dict of process_batch
Stats ==
    [total |-> Len(video_files),
     success |-> SuccessCount(results),
     failed |-> Len(results) - SuccessCount(results),
     total_time |-> now - total_start_time,
     results |-> results]

\* save_report: report_data
ReportData(st) ==
    [model_name |-> "u2net",
     max_frames |-> max_frames,
     statistics |-> [total_files |-> st.total, successful |-> st.success,
                     failed |-> st.failed, total_processing_time |-> st.total_time],
     results |-> [k \in 1..Len(st.results) |->
                    [video_name |-> st.results[k].video_name,
                     status |-> st.results[k].status,
                     processing_time |-> st.results[k].processing_time]]]

\* process_batch after the loop: the statistics, save_report, return stats
process_batch_return(saved) ==
    /\ bpc = "running"
    /\ bi > Len(video_files)
    /\ pc = "Pending"
    /\ stats' = Stats
    /\ report' = IF saved THEN ReportData(Stats) ELSE report
    /\ bpc' = "idle"
    /\ UNCHANGED <<max_frames, results, video_files, bi, create_webm, total_start_time,
                   jobVars, now, fs, histVars>>
    /\ UNCHANGED frontVars
    /\ UNCHANGED sessVars

\* the steps of one process_video run and of the batch loop around it; Readable is
\* what cv2.imread may answer for a processed frame (TRUE: an image, FALSE: None),
\* Saved what save_report's open/json.dump may do (TRUE: written, FALSE: it raised)
\* and Missing by how many frames the header of a container may overstate what decodes
Pipeline(Readable, Saved, Missing) ==
    \/ process_single_video
    \/ \E opens \in BOOLEAN, n \in 0..MaxFrames, m \in Missing :
          extract_frames_open(opens, n + m, n)
    \/ extract_frames_read
    \/ \E ok \in BOOLEAN : process_frames(ok)
    \/ \E ok \in BOOLEAN : create_transparent_video_open(ok)
    \/ \E readable \in Readable : create_transparent_video_frame(readable)
    \/ \E status \in {0, 1} : create_webm_with_transparency(status)
    \/ process_video_return
    \/ process_single_video_return
    \/ process_single_video_except
    \/ \E saved \in Saved : process_batch_return(saved)

\* any sequence of process_batch calls on one instance, MaxJobs jobs in all, on a
\* disk whose processed frames stay readable and whose report file can be written
Next ==
    \/ \E files \in SUBSET AllFiles, cw \in BOOLEAN, extensions \in ExtensionChoices :
          /\ bpc = "idle"
          /\ Len(results) + Len(find_video_files(files, extensions)) <= MaxJobs
          /\ process_batch(files, cw, extensions)
          /\ UNCHANGED cliVars
    \/ Pipeline({TRUE}, {TRUE}, {0})

Spec == Init /\ [][Next]_vars

\* what an earlier run over a container of k frames left in the output directory of
\* the videos named a.*
RECURSIVE PriorDisk(_)
PriorDisk(k) ==
    IF k = 0 THEN <<>>
    ELSE LET raw == Join(<<"a">>, "frames", FrameName(k - 1))
             d == WriteFile(PriorDisk(k - 1), raw, RawFrame(a_avi, k - 1))
         IN remove_background_from_frame(d, raw,
                Join(<<"a">>, "processed_frames", ProcessedName(k - 1)))

\* a fresh instance whose output directory is empty or holds an earlier run's frames
InitJob ==
    /\ Constructed
    /\ SessionLoaded
    /\ fs \in {<<>>, PriorDisk(MaxFrames + 1)}
    /\ FrontIdle

\* one process_batch call that runs at most one job on a fresh instance, with every
\* answer of the disk
NextJob ==
    \/ \E files \in SUBSET AllFiles, cw \in BOOLEAN, extensions \in ExtensionChoices :
          /\ bpc = "idle"
          /\ results = <<>>
          /\ Len(find_video_files(files, extensions)) <= 1
          /\ process_batch(files, cw, extensions)
          /\ UNCHANGED cliVars
    \/ Pipeline(BOOLEAN, BOOLEAN, {0, 1})

SpecJob == InitJob /\ [][NextJob]_vars

(* --------------- find_video_files, one glob at a time ----------------- *)
\* --extensions given without the dot
bare_mp4 == <<"m", "p", "4">>

\* the extension lists of the calls: the default, orders, repeats and overlaps
ExtensionLists ==
    {None, <<dot_mp4>>, <<dot_mp4, dot_avi>>, <<dot_avi, dot_mp4>>,
     <<dot_mp4, dot_mp4>>, <<dot_mp4, bare_mp4>>, <<bare_mp4, dot_avi, dot_mp4>>}

\* the input directories: missing, or holding any of the files
Trees ==
    {[exists |-> FALSE, files |-> {}]} \cup
    {[exists |-> TRUE, files |-> S] : S \in SUBSET AllFiles}

\* the two calls a caller makes one after the other
Calls == {1, 2}

\* the lists that hold each element of S once: the orders in which a directory or a
\* set may be iterated
RECURSIVE Enumerations(_)
Enumerations(S) ==
    IF S = {} THEN {<<>>}
    ELSE UNION {{<<x>> \o l : l \in Enumerations(S \ {x})} : x \in S}

\* list(input_path.glob(f"**/*{ext}")), in any order the file system lists it
glob(dir, ext) == Enumerations({f \in dir.files : GlobMatches(f, ext)})

\* mutant of list_set: list(video_files), every occurrence kept
list_only(l) == {l}

\* list(set(video_files)): each distinct path once, in any order the set iterates
list_set(l) == Enumerations({l[k] : k \in DOMAIN l})

\* one step of a sort: x put into the ascending list l, before its equals
RECURSIVE Insert(_, _)
Insert(x, l) ==
    IF l = <<>> THEN <<x>>
    ELSE IF StrLess(l[1], x) THEN <<l[1]>> \o Insert(x, Tail(l))
    ELSE <<x>> \o l

RECURSIVE InsertAll(_, _)
InsertAll(l, acc) ==
    IF l = <<>> THEN acc ELSE InsertAll(Tail(l), Insert(l[1], acc))

\* mutant of sorted: the list is returned as it is
unsorted(l) == l

\* sorted(l): ascending by code point, as many elements as l has
sorted(l) == InsertAll(l, <<>>)

\* no call of find_video_files has been made
NoScan == [extensions |-> <<>>, i |-> 0, video_files |-> <<>>, ret |-> <<>>, at |-> "none"]

\* find_video_files up to the loop: the default extensions, the missing directory
find_video_files_call(c, extensions) ==
    /\ scan[c].at = "none"
    /\ \A b \in Calls : b < c => scan[b].at = "returned"
    /\ LET exts == IF extensions = None THEN DefaultExtensions ELSE extensions
       IN scan' = [scan EXCEPT ![c] =
                     IF ~tree.exists
                     THEN [NoScan EXCEPT !.extensions = exts, !.at = "returned"]
                     ELSE [NoScan EXCEPT !.extensions = exts, !.at = "loop"]]
    /\ UNCHANGED <<batchVars, jobVars, now, fs, histVars, tree, cliVars, guiVars, pixVars>>
    /\ UNCHANGED sessVars

\* find_video_files: one iteration of `for ext in extensions`
find_video_files_glob(c) ==
    /\ scan[c].at = "loop"
    /\ ~LoopDone(scan[c].i, scan[c].extensions)
    /\ \E files \in glob(tree, scan[c].extensions[scan[c].i + 1]) :
          scan' = [scan EXCEPT ![c].video_files = @ \o files, ![c].i = @ + 1]
    /\ UNCHANGED <<batchVars, jobVars, now, fs, histVars, tree, cliVars, guiVars, pixVars>>
    /\ UNCHANGED sessVars

\* find_video_files after the loop: sorted(list(set(video_files))) and return
find_video_files_return(c) ==
    /\ scan[c].at = "loop"
    /\ LoopDone(scan[c].i, scan[c].extensions)
    /\ \E l \in list_set(scan[c].video_files) :
          scan' = [scan EXCEPT ![c].ret = sorted(l), ![c].at = "returned"]
    /\ UNCHANGED <<batchVars, jobVars, now, fs, histVars, tree, cliVars, guiVars, pixVars>>
    /\ UNCHANGED sessVars

\* a directory that stays as it is, and no call made yet
InitFind ==
    /\ Constructed
    /\ SessionLoaded
    /\ max_frames = None
    /\ fs = <<>>
    /\ tree \in Trees
    /\ scan = [c \in Calls |-> NoScan]
    /\ CliIdle
    /\ GuiIdle
    /\ PixIdle

\* two calls of find_video_files on the same directory, each with any of the lists
NextFind ==
    \/ \E c \in Calls, extensions \in ExtensionLists : find_video_files_call(c, extensions)
    \/ \E c \in Calls : find_video_files_glob(c)
    \/ \E c \in Calls : find_video_files_return(c)

SpecFind == InitFind /\ [][NextFind]_vars



(* ------------------------------- claims ------------------------------- *)
\* the value of a sequence of decimal digits
RECURSIVE DecimalValue(_)
DecimalValue(ds) ==
    IF ds = <<>> THEN 0 ELSE 10 * DecimalValue(SubSeq(ds, 1, Len(ds) - 1)) + ds[Len(ds)]

\* path is <dir>/<sub>/<prefix><i as six decimal digits>.png
IsOrdinalPath(path, dir, sub, prefix, i) ==
    /\ path[1] = dir
    /\ path[2] = sub
    /\ path[3][1] = prefix
    /\ Len(path[3][2]) = 6
    /\ DecimalValue(path[3][2]) = i
    /\ path[3][3] = ".png"

\* the ordinals of the paths of directory sub that this run wrote
WrittenOrdinals(sub) ==
    {DecimalValue(written[k][3][2]) : k \in {m \in 1..Len(written) : written[m][2] = sub}}

\* the last entry of self.results
LastResult == results[Len(results)]

\* the states in which extract_frames has returned to process_video
ExtractionReturned ==
    \/ pc \in {"segment", "asm_open", "asm_write", "webm", "return", "Succeeded"}
    \/ pc = "Failed" /\ raised # "cannot open video file"

\* the states in which process_frames has returned to process_video
SegmentationReturned ==
    \/ pc \in {"asm_open", "asm_write", "webm", "return", "Succeeded"}
    \/ pc = "Failed" /\ raised = "cannot create video file"

\* C1: fail-fast. Once remove_background_from_frame has failed on the frame with
\* ordinal j, it was the last segmentation call of the job, no processed frame with an
\* ordinal >= j was written, the assembler and the transcoder were not invoked,
\* process_video has raised, and the result recorded for the job is 'failed'.
C1_FailFast ==
    \A k \in 1..Len(segCalls) :
        ~segCalls[k][2] =>
            /\ k = Len(segCalls)
            /\ \A n \in WrittenOrdinals("processed_frames") : n < segCalls[k][1]
            /\ asmCalls = 0
            /\ ffmpegCalls = <<>>
            /\ pc \in {"Failed", "Pending"}
            /\ pc = "Pending" => LastResult.status = "failed"

\* C1 witness: segmentation failed on frame 0 of a job that extracted a later frame,
\* and the job is recorded
C1_Witness ==
    /\ pc = "Pending"
    /\ Len(extracted_frames) > 1
    /\ segCalls = <<<<0, FALSE>>>>
    /\ LastResult.status = "failed"

\* C2: batch isolation. When a process_batch call over n >= 1 files has returned, every
\* file was processed exactly once, in order, and the report has total = n, failed =
\* the number of jobs that failed in the call, success = n - failed, one result per file.
C2_BatchIsolation ==
    (bpc = "idle" /\ runs # <<>>) =>
        /\ runs = video_files
        /\ stats.total = Len(video_files)
        /\ stats.failed = failures
        /\ stats.success = Len(video_files) - failures
        /\ Len(stats.results) = Len(video_files)

\* C2 on a fresh instance: the same for the first call that runs a job
C2_FirstCall ==
    (bpc = "idle" /\ runs # <<>> /\ Len(results) = Len(runs)) =>
        /\ runs = video_files
        /\ stats.total = Len(video_files)
        /\ stats.failed = failures
        /\ stats.success = Len(video_files) - failures
        /\ Len(stats.results) = Len(video_files)

\* C3: when the WebM export was requested and the transcoder step failed, the job
\* still succeeds with output_mp4 set and the returned output_webm is None.
C3_WebmFailureAbsent ==
    (pc = "Succeeded" /\ create_webm
        /\ (processed_frames = <<>> \/ \E k \in 1..Len(ffmpegCalls) : ffmpegCalls[k] # 0)) =>
        /\ ret.output_mp4 = Mp4Path(output_dir)
        /\ ret.output_webm = None

\* C4: a container that opens and yields zero frames never reaches the segmenting or
\* assembling stage; the job ends Failed with a 'no frames extracted' error.
C4_ZeroFramesFail ==
    (ExtractionReturned /\ frame_count = 0) =>
        /\ pc = "Failed"
        /\ raised = "no frames extracted"


\* C5 as stated: for every cap M >= 0 and a container of N decodable frames,
\* extract_frames writes and returns M frames if M < N and N frames if M >= N.
C5_CapNonNegative ==
    (ExtractionReturned /\ max_frames # None /\ max_frames[1] >= 0) =>
        LET expected == IF max_frames[1] < cap_n THEN max_frames[1] ELSE cap_n
        IN /\ frame_count = expected
           /\ Len(extracted_frames) = expected
           /\ WrittenOrdinals("frames") = 0..(expected - 1)

\* C5 amended: the same for every cap M >= 1.
C5_CapPositive ==
    (ExtractionReturned /\ max_frames # None /\ max_frames[1] >= 1) =>
        LET expected == IF max_frames[1] < cap_n THEN max_frames[1] ELSE cap_n
        IN /\ frame_count = expected
           /\ Len(extracted_frames) = expected
           /\ WrittenOrdinals("frames") = 0..(expected - 1)

\* C5 witness: a cap below the number of decodable frames stopped the extraction
C5_Witness ==
    /\ pc = "segment"
    /\ max_frames = <<1>>
    /\ cap_n = 2
    /\ frame_count = 1

\* lexical order of two sequences of digits
RECURSIVE DigitsLess(_, _)
DigitsLess(x, y) ==
    IF x = <<>> THEN y # <<>>
    ELSE IF y = <<>> THEN FALSE
    ELSE IF Head(x) # Head(y) THEN Head(x) < Head(y)
    ELSE DigitsLess(Tail(x), Tail(y))

\* C6: with no cap, extracting a container of N >= 1 frames returns N paths, the i-th
\* (from 0) being frames/frame_<i as six digits>.png and holding the i-th decoded frame;
\* the names sort lexically in decode order.
C6_ContiguousOrdinals ==
    (ExtractionReturned /\ max_frames = None /\ cap_n >= 1) =>
        /\ frame_count = cap_n
        /\ Len(extracted_frames) = cap_n
        /\ \A i \in 0..(cap_n - 1) :
              /\ IsOrdinalPath(extracted_frames[i + 1], output_dir, "frames", "frame_", i)
              /\ fs[extracted_frames[i + 1]] = RawFrame(input_video, i)
        /\ \A i, j \in 0..(cap_n - 1) :
              i < j => DigitsLess(extracted_frames[i + 1][3][2], extracted_frames[j + 1][3][2])

\* C6 witness: an uncapped extraction of the largest container has returned
C6_Witness ==
    /\ pc = "segment"
    /\ max_frames = None
    /\ cap_n = MaxFrames
    /\ Len(extracted_frames) = MaxFrames

\* C7: when process_frames has returned for K input frames, it made K segmentation
\* calls, on the indices 0..K-1 in this order, and returns K paths, the i-th being
\* processed_frames/processed_frame_<i as six digits>.png and holding the segmentation
\* of the i-th input frame.
C7_OrderPreserving ==
    SegmentationReturned =>
        /\ Len(processed_frames) = Len(extracted_frames)
        /\ segCalls = [k \in 1..Len(extracted_frames) |-> <<k - 1, TRUE>>]
        /\ \A i \in 0..(Len(extracted_frames) - 1) :
              /\ IsOrdinalPath(processed_frames[i + 1], output_dir, "processed_frames",
                               "processed_frame_", i)
              /\ fs[processed_frames[i + 1]] = Segmented(RawFrame(input_video, i))
              /\ fs[processed_frames[i + 1]] = Segmented(fs[extracted_frames[i + 1]])

\* C7 witness: process_frames has returned for two frames
C7_Witness ==
    /\ pc = "asm_open"
    /\ Len(processed_frames) = 2


\* the stage of the job state machine that a position of process_video belongs to
Stage(p) ==
    CASE p = "Pending" -> "Pending"
      [] p \in {"extract_open", "extract_read"} -> "Extracting"
      [] p = "segment" -> "Segmenting"
      [] p \in {"asm_open", "asm_write", "webm", "return"} -> "Assembling"
      [] p = "Succeeded" -> "Succeeded"
      [] p = "Failed" -> "Failed"

\* the stage changes of one run; from a terminal state only the next run's Pending
StageOrder ==
    {<<"Pending", "Extracting">>, <<"Extracting", "Segmenting">>,
     <<"Segmenting", "Assembling">>, <<"Assembling", "Succeeded">>,
     <<"Extracting", "Failed">>, <<"Segmenting", "Failed">>, <<"Assembling", "Failed">>,
     <<"Succeeded", "Pending">>, <<"Failed", "Pending">>}

\* extract_frames has left its loop and every frame it returned is on disk
ExtractionFinished ==
    /\ cap_pos = cap_n \/ CapReached(max_frames, frame_count)
    /\ Len(extracted_frames) = frame_count
    /\ \A k \in 1..Len(extracted_frames) : extracted_frames[k] \in DOMAIN fs

\* process_frames has processed every extracted frame and each result is on disk
SegmentationFinished ==
    /\ Len(processed_frames) = Len(extracted_frames)
    /\ \A k \in 1..Len(processed_frames) : processed_frames[k] \in DOMAIN fs

\* C8: every step of a run moves along Extracting, Segmenting, Assembling to Succeeded
\* or Failed; Extracting is entered only by a new run; raw frames are written only
\* while Extracting; a frame is segmented only while Segmenting and after extraction
\* has finished; the assembler writes or consumes a frame only while Assembling and
\* after every frame is segmented.
C8_StageOrder ==
    [][/\ Stage(pc') # Stage(pc) => <<Stage(pc), Stage(pc')>> \in StageOrder
       /\ Stage(pc') = "Extracting" /\ Stage(pc) # "Extracting" => Len(runs') = Len(runs) + 1
       /\ (written' # written /\ written' # <<>>) =>
             LET p == written'[Len(written')]
             IN /\ p[2] = "frames" => Stage(pc) = "Extracting"
                /\ p[2] = "processed_frames" => Stage(pc) = "Segmenting"
                /\ p[2] = "." => Stage(pc) = "Assembling" /\ SegmentationFinished
       /\ (segCalls' # segCalls /\ segCalls' # <<>>) =>
             Stage(pc) = "Segmenting" /\ ExtractionFinished
       /\ (asm_i' # asm_i /\ asm_i' # 0) =>
             Stage(pc) = "Assembling" /\ SegmentationFinished
      ]_vars

\* C8 witness: a run over two frames went through every stage and succeeded
C8_Witness ==
    /\ pc = "Succeeded"
    /\ frame_count = 2
    /\ Len(segCalls) = 2
    /\ asm_i = 2

\* C9: once a job of the current process_batch call that raised is recorded, its result
\* has status 'failed', the message of the exception and the elapsed time; the batch
\* loop has moved to the next file. A raised exception is one of the three stage errors.
C9_FailedResult ==
    /\ pc = "Failed" =>
          raised \in {"cannot open video file", "segmentation failed",
                      "cannot create video file"}
    /\ (pc = "Pending" /\ raised # "" /\ runs # <<>>) =>
          /\ LastResult.status = "failed"
          /\ LastResult.error = raised
          /\ LastResult.processing_time = now - start_time
          /\ LastResult.processing_time > 0
          /\ LastResult.input_video = input_video
          /\ bi = Len(runs) + 1
          /\ bpc \in {"running", "idle"}

\* C9 witness: a job whose opaque video writer could not be opened, after two frames
\* were extracted and segmented, is recorded
C9_Witness ==
    /\ pc = "Pending"
    /\ raised = "cannot create video file"
    /\ Len(processed_frames) = 2
    /\ LastResult.status = "failed"

\* C10: after a sequence of successful runs of one video into one output directory
\* (here: each run of at least one frame), frames/ and processed_frames/ of that
\* directory hold exactly the ordinals 0..frame_count-1 of the latest run.
C10_RerunOverwrites ==
    (/\ pc = "Succeeded"
     /\ frame_count >= 1
     /\ \A k \in 1..Len(results) :
           /\ results[k].status = "success"
           /\ results[k].frame_count >= 1
           /\ results[k].input_video = input_video) =>
        /\ Listing(fs, output_dir, "frames", FrameName) = 0..(frame_count - 1)
        /\ Listing(fs, output_dir, "processed_frames", ProcessedName) = 0..(frame_count - 1)

(* ----------------------- batch_processor.main ------------------------- *)
\* default of --extensions
CliExtensions == <<dot_mp4, dot_avi, dot_mov, dot_mkv, dot_wmv>>

\* the command lines: --html-report, --verbose, --no-webm, --extensions
CommandLines ==
    [html_report : BOOLEAN, verbose : BOOLEAN, no_webm : BOOLEAN,
     extensions : {CliExtensions, <<dot_mp4>>}]

\* main up to the try: parse_args, the log level, the check of the input directory
main_parse ==
    /\ mpc = "parse"
    /\ IF ~tree.exists
       THEN /\ exit_code' = <<1>>
            /\ mpc' = "exited"
       ELSE /\ mpc' = "construct"
            /\ UNCHANGED exit_code
    /\ UNCHANGED <<batchVars, jobVars, now, fs, histVars, findVars, args, html,
                   guiVars, pixVars>>
    /\ UNCHANGED sessVars

\* main: BatchVideoProcessor(...), whose new_session may raise into the handler
main_construct(ok) ==
    /\ mpc = "construct"
    /\ IF ok
       THEN /\ mpc' = "call"
            /\ UNCHANGED exit_code
       ELSE /\ exit_code' = <<1>>
            /\ mpc' = "exited"
    /\ VideoBackgroundRemover_init(ok)
    /\ UNCHANGED <<batchVars, jobVars, now, fs, histVars, findVars, args, html,
                   guiVars, pixVars>>

\* main: the call of processor.process_batch
main_process_batch ==
    /\ mpc = "call"
    /\ process_batch(tree.files, ~args.no_webm, args.extensions)
    /\ mpc' = "batch"
    /\ UNCHANGED <<args, exit_code, html>>
    /\ UNCHANGED sessVars

\* generate_html_report reads stats['total_time'] while it builds the page
HtmlReportRaises(st) == "total_time" \notin DOMAIN st

\* the page generate_html_report writes
HtmlPage(st) == <<"html", st.total, st.success, st.failed>>

\* main after process_batch returned: the optional generate_html_report, whose
\* KeyError goes to main's handler and whose failure to write the file is logged
main_html_report(wrote) ==
    /\ mpc = "batch"
    /\ bpc = "idle"
    /\ IF ~args.html_report
       THEN /\ mpc' = "return"
            /\ UNCHANGED <<exit_code, html>>
       ELSE IF HtmlReportRaises(stats)
       THEN /\ exit_code' = <<1>>
            /\ mpc' = "exited"
            /\ UNCHANGED html
       ELSE /\ html' = IF wrote THEN HtmlPage(stats) ELSE html
            /\ mpc' = "return"
            /\ UNCHANGED exit_code
    /\ UNCHANGED <<batchVars, jobVars, now, fs, histVars, findVars, args, guiVars, pixVars>>
    /\ UNCHANGED sessVars

\* return 0 if stats['failed'] == 0 else 1
ExitCode(st) == IF st.failed = 0 THEN 0 ELSE 1

\* main: the return statement of the try block
main_return ==
    /\ mpc = "return"
    /\ exit_code' = <<ExitCode(stats)>>
    /\ mpc' = "exited"
    /\ UNCHANGED <<batchVars, jobVars, now, fs, histVars, findVars, args, html,
                   guiVars, pixVars>>
    /\ UNCHANGED sessVars

\* a process started with any command line on any input directory
InitMain ==
    /\ Constructed
    /\ NoSession
    /\ fs = <<>>
    /\ tree \in Trees
    /\ scan = <<>>
    /\ args \in CommandLines
    /\ mpc = "parse"
    /\ exit_code = None
    /\ html = None
    /\ GuiIdle
    /\ PixIdle

\* one run of main over a directory that holds at most one video
NextMain ==
    \/ main_parse
    \/ \E ok \in BOOLEAN : main_construct(ok)
    \/ /\ Len(find_video_files(tree.files, args.extensions)) <= 1
       /\ main_process_batch
    \/ Pipeline({TRUE}, {TRUE}, {0})
    \/ \E wrote \in BOOLEAN : main_html_report(wrote)
    \/ main_return

SpecMain == InitMain /\ [][NextMain]_vars

\* main on an existing directory of videos, without --verbose and with --no-webm
InitBatchMain ==
    /\ InitMain
    /\ tree.exists
    /\ c_txt \notin tree.files
    /\ ~args.verbose
    /\ args.no_webm
    /\ args.extensions = CliExtensions

\* one run of main over a directory that holds at most MaxJobs videos
NextBatchMain ==
    \/ main_parse
    \/ \E ok \in BOOLEAN : main_construct(ok)
    \/ /\ Len(find_video_files(tree.files, args.extensions)) <= MaxJobs
       /\ main_process_batch
    \/ Pipeline({TRUE}, {TRUE}, {0})
    \/ \E wrote \in BOOLEAN : main_html_report(wrote)
    \/ main_return

SpecBatchMain == InitBatchMain /\ [][NextBatchMain]_vars

(* ----------------------------- gui_app.py ----------------------------- *)
\* the video and the output directory chosen in the window
gui_input == a_mp4
gui_output == <<"o", "u", "t">>

\* validate_inputs on the max_frames entry: empty, or an integer above 0
validate_inputs == IF max_frames = None THEN TRUE ELSE max_frames[1] > 0

\* mutant of Clickable: a button runs its command whatever its state
ClickableAlways(button) == TRUE

\* a ttk.Button runs its command on a click unless its state is 'disabled'
Clickable(button) == button = "normal"

\* start_processing, a click on process_button: when it does not return early it
\* sets the flag and the buttons and starts the thread
start_processing ==
    /\ Clickable(process_button)
    /\ validate_inputs
    /\ ~processing
    /\ processing' = TRUE
    /\ process_button' = "disabled"
    /\ stop_button' = "normal"
    /\ gpc' = "started"
    /\ threads' = threads + 1
    /\ stop_at' = None
    /\ UNCHANGED <<batchVars, jobVars, now, fs, histVars, findVars, cliVars, pixVars>>
    /\ UNCHANGED sessVars

\* stop_processing, a click on stop_button
stop_processing ==
    /\ Clickable(stop_button)
    /\ processing' = FALSE
    /\ stop_at' = IF stop_at = None THEN <<Len(segCalls)>> ELSE stop_at
    /\ UNCHANGED <<batchVars, jobVars, now, fs, histVars, findVars, cliVars, pixVars,
                   process_button, stop_button, gpc, threads>>
    /\ UNCHANGED sessVars

\* process_video_thread up to the call of extract_frames: the parameters are read,
\* VideoBackgroundRemover(...) is built (new_session may raise), process_video starts
process_video_thread(ok, cw) ==
    /\ gpc = "started"
    /\ gpc' = "running"
    /\ input_video' = gui_input
    /\ output_dir' = gui_output
    /\ create_webm' = cw
    /\ start_time' = now
    /\ pc' = IF ok THEN "extract_open" ELSE "Failed"
    /\ raised' = IF ok THEN "" ELSE "model load failed"
    /\ cap_n' = 0
    /\ cap_pos' = 0
    /\ cap_frames' = 0
    /\ total_frames' = 0
    /\ frame_count' = 0
    /\ extracted_frames' = <<>>
    /\ meta' = NoMeta
    /\ processed_frames' = <<>>
    /\ asm_i' = 0
    /\ warned' = {}
    /\ output_webm' = None
    /\ ret' = None
    /\ segCalls' = <<>>
    /\ asmCalls' = 0
    /\ ffmpegCalls' = <<>>
    /\ written' = <<>>
    /\ runs' = Append(runs, gui_input)
    /\ VideoBackgroundRemover_init(ok)
    /\ UNCHANGED <<max_frames, results, bpc, video_files, bi, total_start_time, stats,
                   report, now, fs, failures, findVars, cliVars, pixVars,
                   processing, process_button, stop_button, threads, stop_at>>

\* process_video_thread, its last statement: root.after(0, ...) queues the callback
\* for the result or for the exception, and the thread ends
process_video_thread_after ==
    /\ gpc = "running"
    /\ pc \in {"Succeeded", "Failed"}
    /\ gpc' = IF pc = "Succeeded" THEN "completed" ELSE "failed"
    /\ pc' = "Pending"
    /\ threads' = threads - 1
    /\ UNCHANGED <<batchVars, input_video, output_dir, start_time, extractVars,
                   processed_frames, asm_i, warned, output_webm, ret, raised, now, fs,
                   histVars, findVars, cliVars, pixVars,
                   processing, process_button, stop_button, stop_at>>
    /\ UNCHANGED sessVars

\* processing_completed, run by the main loop
processing_completed ==
    /\ gpc = "completed"
    /\ processing' = FALSE
    /\ process_button' = "normal"
    /\ stop_button' = "disabled"
    /\ gpc' = "none"
    /\ UNCHANGED <<batchVars, jobVars, now, fs, histVars, findVars, cliVars, pixVars,
                   threads, stop_at>>
    /\ UNCHANGED sessVars

\* processing_failed, run by the main loop
processing_failed ==
    /\ gpc = "failed"
    /\ processing' = FALSE
    /\ process_button' = "normal"
    /\ stop_button' = "disabled"
    /\ gpc' = "none"
    /\ UNCHANGED <<batchVars, jobVars, now, fs, histVars, findVars, cliVars, pixVars,
                   threads, stop_at>>
    /\ UNCHANGED sessVars

\* the callback queued at line 349, run by the main loop after the except clause
\* has ended and unbound e: str(e) raises NameError inside the lambda, Tk reports
\* the exception of the callback and processing_failed is not called
processing_failed_unbound ==
    /\ gpc = "failed"
    /\ gpc' = "none"
    /\ UNCHANGED <<batchVars, jobVars, now, fs, histVars, findVars, cliVars, pixVars,
                   processing, process_button, stop_button, threads, stop_at>>
    /\ UNCHANGED sessVars

\* the window after __init__, with any content of the max_frames entry
InitGui ==
    /\ Constructed
    /\ NoSession
    /\ fs = <<>>
    /\ FrontIdle

\* one job started from the window, with clicks on stop at any moment
NextGui ==
    \/ /\ runs = <<>>
       /\ start_processing
    \/ stop_processing
    \/ \E ok \in BOOLEAN, cw \in BOOLEAN : process_video_thread(ok, cw)
    \/ \E opens \in BOOLEAN, n \in 0..MaxFrames : extract_frames_open(opens, n, n)
    \/ extract_frames_read
    \/ \E ok \in BOOLEAN : process_frames(ok)
    \/ \E ok \in BOOLEAN : create_transparent_video_open(ok)
    \/ \E readable \in BOOLEAN : create_transparent_video_frame(readable)
    \/ \E status \in {0, 1} : create_webm_with_transparency(status)
    \/ process_video_return
    \/ process_video_thread_after
    \/ processing_completed
    \/ processing_failed
    \/ processing_failed_unbound

SpecGui == InitGui /\ [][NextGui]_vars

\* the steps of the worker thread and of the callbacks it queues
GuiWorker ==
    \/ \E ok \in BOOLEAN, cw \in BOOLEAN : process_video_thread(ok, cw)
    \/ \E opens \in BOOLEAN : extract_frames_open(opens, 1, 1)
    \/ extract_frames_read
    \/ \E ok \in BOOLEAN : process_frames(ok)
    \/ create_transparent_video_open(TRUE)
    \/ create_transparent_video_frame(TRUE)
    \/ create_webm_with_transparency(0)
    \/ process_video_return
    \/ process_video_thread_after
    \/ processing_completed
    \/ processing_failed
    \/ processing_failed_unbound

\* MaxJobs jobs of a one-frame video started from the window one after the other,
\* with clicks on both buttons at any moment
NextGuiJobs ==
    \/ /\ Len(runs) < MaxJobs
       /\ start_processing
    \/ stop_processing
    \/ GuiWorker

SpecGuiJobs == InitGui /\ [][NextGuiJobs]_vars

\* the thread that was started runs to its end and the main loop runs every
\* callback that was queued
SpecGuiLive == SpecGuiJobs /\ WF_vars(GuiWorker)

(* ------------- create_transparent_video, one pixel of a frame ---------- *)
\* the backdrop of line 221 and the divisor of line 219
White == 255
AlphaMax == 255

\* the alpha values of the pixels: transparent, opaque and some in between
Alphas == {0, 1, 43, 128, 254, AlphaMax}

\* the values of the two channels that are not varied
Shades == {0, 128, White}

\* the pixels cv2.imread may return: B, G, R with or without A, each colour channel
\* in turn over all of 0..255
Pixels ==
    UNION {{<<s, t, t>>, <<s, t, t, a>>, <<t, s, t, a>>, <<t, t, s, a>>} :
              <<s, t, a>> \in (0..White) \X Shades \X Alphas}

\* mutant of Backdrop: a black backdrop
BackdropBlack(a) == 0

\* AlphaMax times 255 * (1 - alpha), for alpha = a / 255.0
Backdrop(a) == White * (AlphaMax - a)

\* mutant of Blend255: the source weighted by 1 - alpha
BlendInverted(s, a) == s * (AlphaMax - a) + Backdrop(a)

\* AlphaMax times img[:, :, c] * alpha + 255 * (1 - alpha), in exact arithmetic
Blend255(s, a) == s * a + Backdrop(a)

\* what the uint8 channel holds after the assignment of line 221, which truncates the
\* double to an integer. For a = 0 and a = 255 alpha is exactly 0.0 or 1.0 and every
\* operation is exact. In between, the roundings of the division, the products and
\* the sum can leave the double just below a whole exact value, which then truncates
\* to the integer below: both outcomes are kept
Blended(s, a) ==
    LET v == Blend255(s, a)
        q == v \div AlphaMax
    IN IF v % AlphaMax = 0 /\ a \notin {0, AlphaMax} THEN {q - 1, q} ELSE {q}

\* img.astype(np.uint8)
ToUint8(x) == x % 256

\* the body of the loop for one pixel of a frame that was read and has the declared
\* size: the blend onto white when there is an alpha channel, then out.write
create_transparent_video_pixel ==
    /\ img # <<>>
    /\ out = None
    /\ IF Len(img) = 4
       THEN \E b \in Blended(img[1], img[4]), g \in Blended(img[2], img[4]),
               r \in Blended(img[3], img[4]) :
                out' = <<ToUint8(b), ToUint8(g), ToUint8(r)>>
       ELSE out' = <<ToUint8(img[1]), ToUint8(img[2]), ToUint8(img[3])>>
    /\ UNCHANGED <<batchVars, jobVars, now, fs, histVars, findVars, cliVars, guiVars, img>>
    /\ UNCHANGED sessVars

\* any pixel of a processed frame, not yet written
InitPixel ==
    /\ Constructed
    /\ SessionLoaded
    /\ max_frames = None
    /\ fs = <<>>
    /\ FindIdle
    /\ CliIdle
    /\ GuiIdle
    /\ img \in Pixels
    /\ out = None

NextPixel == create_transparent_video_pixel

SpecPixel == InitPixel /\ [][NextPixel]_vars

(* ------------------- video_background_remover.main -------------------- *)
\* the command lines of the single-video tool: --input, --no-webm, --verbose
RemoverCommandLines == [input : {a_mp4}, no_webm : BOOLEAN, verbose : BOOLEAN]

\* the directory of the input: the file is there, or it is not
RemoverTrees == {[exists |-> TRUE, files |-> S] : S \in {{}, {a_mp4}}}

\* os.path.exists(args.input)
InputExists == args.input \in tree.files

\* mutant of ExitStatus: main returns 0 from its handler too
ExitStatusZero(succeeded) == 0

\* return 0 after process_video returned, return 1 from the handler
ExitStatus(succeeded) == IF succeeded THEN 0 ELSE 1

\* main up to the try: parse_args, the log level, the check of the input file
remover_main_parse ==
    /\ mpc = "parse"
    /\ IF ~InputExists
       THEN /\ exit_code' = <<1>>
            /\ mpc' = "exited"
       ELSE /\ mpc' = "construct"
            /\ UNCHANGED exit_code
    /\ UNCHANGED <<batchVars, jobVars, now, fs, histVars, findVars, args, html,
                   guiVars, pixVars>>
    /\ UNCHANGED sessVars

\* main: VideoBackgroundRemover(...), whose new_session may raise into the handler
remover_main_construct(ok) ==
    /\ mpc = "construct"
    /\ IF ok
       THEN /\ mpc' = "call"
            /\ UNCHANGED <<exit_code, raised>>
       ELSE /\ raised' = "model load failed"
            /\ exit_code' = <<ExitStatus(FALSE)>>
            /\ mpc' = "exited"
    /\ UNCHANGED <<batchVars, pc, input_video, output_dir, start_time, extractVars,
                   processed_frames, asm_i, warned, output_webm, ret, now, fs,
                   histVars, findVars, args, html, guiVars, pixVars>>
    /\ VideoBackgroundRemover_init(ok)

\* main: the call of remover.process_video, up to the call of extract_frames
remover_main_process_video ==
    /\ mpc = "call"
    /\ mpc' = "video"
    /\ input_video' = args.input
    /\ output_dir' = gui_output
    /\ create_webm' = ~args.no_webm
    /\ start_time' = now
    /\ pc' = "extract_open"
    /\ raised' = ""
    /\ cap_n' = 0
    /\ cap_pos' = 0
    /\ cap_frames' = 0
    /\ total_frames' = 0
    /\ frame_count' = 0
    /\ extracted_frames' = <<>>
    /\ meta' = NoMeta
    /\ processed_frames' = <<>>
    /\ asm_i' = 0
    /\ warned' = {}
    /\ output_webm' = None
    /\ ret' = None
    /\ segCalls' = <<>>
    /\ asmCalls' = 0
    /\ ffmpegCalls' = <<>>
    /\ written' = <<>>
    /\ runs' = Append(runs, args.input)
    /\ UNCHANGED <<max_frames, results, bpc, video_files, bi, total_start_time, stats,
                   report, now, fs, failures, findVars, args, exit_code, html,
                   guiVars, pixVars>>
    /\ UNCHANGED sessVars

\* main after process_video: it returned (the summary is logged, return 0) or it
\* raised (the handler logs, return 1)
remover_main_return ==
    /\ mpc = "video"
    /\ pc \in {"Succeeded", "Failed"}
    /\ exit_code' = <<ExitStatus(pc = "Succeeded")>>
    /\ mpc' = "exited"
    /\ UNCHANGED <<batchVars, jobVars, now, fs, histVars, findVars, args, html,
                   guiVars, pixVars>>
    /\ UNCHANGED sessVars

\* a process started with any command line, the input file there or not
InitRemoverMain ==
    /\ Constructed
    /\ NoSession
    /\ fs = <<>>
    /\ tree \in RemoverTrees
    /\ scan = <<>>
    /\ args \in RemoverCommandLines
    /\ mpc = "parse"
    /\ exit_code = None
    /\ html = None
    /\ GuiIdle
    /\ PixIdle

\* one run of the single-video main
NextRemoverMain ==
    \/ remover_main_parse
    \/ \E ok \in BOOLEAN : remover_main_construct(ok)
    \/ remover_main_process_video
    \/ \E opens \in BOOLEAN, n \in 0..MaxFrames : extract_frames_open(opens, n, n)
    \/ extract_frames_read
    \/ \E ok \in BOOLEAN : process_frames(ok)
    \/ \E ok \in BOOLEAN : create_transparent_video_open(ok)
    \/ \E readable \in BOOLEAN : create_transparent_video_frame(readable)
    \/ \E status \in {0, 1} : create_webm_with_transparency(status)
    \/ process_video_return
    \/ remover_main_return

SpecRemoverMain == InitRemoverMain /\ [][NextRemoverMain]_vars

(* ------------------------------ C11, C12 ------------------------------ *)
\* the extensions a call was given, as a set
ExtensionSet(c) == {scan[c].extensions[k] : k \in DOMAIN scan[c].extensions}

\* both calls of find_video_files have returned
BothReturned == \A c \in Calls : scan[c].at = "returned"

\* C11: two calls of find_video_files on an unchanged directory with the same
\* extensions return the same list in the same order, whatever order the file
\* system and the set enumerate in and whatever order the extensions are given in
C11_Deterministic ==
    (BothReturned /\ ExtensionSet(1) = ExtensionSet(2)) => scan[1].ret = scan[2].ret

\* both calls returned two files or more, the extensions were given in different
\* orders and the globs listed the files in different orders
C11_Witness ==
    /\ BothReturned
    /\ ExtensionSet(1) = ExtensionSet(2)
    /\ scan[1].extensions # scan[2].extensions
    /\ scan[1].video_files # scan[2].video_files
    /\ Len(scan[1].ret) >= 2

\* C12: the list find_video_files returns is strictly ascending, so no path is in
\* it twice, also when repeated or overlapping extensions match the same file
C12_StrictlyAscending ==
    \A c \in Calls :
        scan[c].at = "returned" =>
            \A k \in 1..(Len(scan[c].ret) - 1) : StrLess(scan[c].ret[k], scan[c].ret[k + 1])

\* a call returned two files or more after the globs had listed a file twice
C12_Witness ==
    \E c \in Calls :
        /\ scan[c].at = "returned"
        /\ Len(scan[c].ret) >= 2
        /\ Len(scan[c].video_files) > Len(scan[c].ret)

(* ------------------------------ C13..C16 ------------------------------ *)
\* C13: once process_batch has returned, batch main exits with 0 exactly when no
\* video of the run failed, and with 1 exactly when one did, for every command line
C13_ExitCode ==
    (mpc = "exited" /\ DOMAIN stats # {}) =>
        /\ exit_code = <<0>> <=> failures = 0
        /\ exit_code = <<1>> <=> failures > 0

\* C14: the report every process_batch call returns holds the totals, the aggregate
\* timing and the per-file list, also when no file was found
C14_ReportComplete ==
    (bpc = "idle" /\ DOMAIN stats # {}) =>
        {"total", "success", "failed", "total_time", "results"} \subseteq DOMAIN stats

\* C15: in the report of every process_batch call on an instance, total is the
\* number of files the call discovered and equals success + failed and the length
\* of the result list
C15_TotalsAgree ==
    (bpc = "idle" /\ DOMAIN stats # {}) =>
        /\ stats.total = stats.success + stats.failed
        /\ stats.total = Len(stats.results)

\* the results of the jobs the current process_batch call has finished
BatchResults == SubSeq(results, Len(results) - (bi - 1) + 1, Len(results))

\* C16: two distinct videos of one batch run that both succeeded with a frame or
\* more were given distinct output directories
C16_DistinctOutputDirs ==
    \A i, j \in 1..Len(BatchResults) :
        ( /\ i < j
          /\ BatchResults[i].input_video # BatchResults[j].input_video
          /\ BatchResults[i].status = "success" /\ BatchResults[j].status = "success"
          /\ BatchResults[i].frame_count >= 1 /\ BatchResults[j].frame_count >= 1 )
        => BatchResults[i].output_dir # BatchResults[j].output_dir

(* -------------------------------- C17 --------------------------------- *)
\* C17: after a click on stop during a job of the GUI, at most the frame in flight
\* is still segmented: no second call of remove_background_from_frame begins
C17_StopTakesEffect ==
    stop_at # None => Len(segCalls) <= stop_at[1] + 1

(* -------------------------------- C18 --------------------------------- *)
\* the keys of the dict process_video returns
ResultKeys ==
    {"input_video", "output_dir", "frame_count", "fps", "resolution", "output_mp4",
     "output_webm", "frames_dir", "processed_frames_dir"}

\* C18 as stated: the result a successful process_video returns holds the metadata,
\* the output paths and the timing of the run
C18_ResultTimed ==
    pc = "Succeeded" =>
        {"frame_count", "fps", "resolution", "output_mp4", "output_webm",
         "processing_time"} \subseteq DOMAIN ret

\* C18, amended: the result a successful process_video returns holds the metadata of
\* the container and the output paths and no timing; process_single_video adds the
\* status, the elapsed time and the video name to it
C18_ResultPopulated ==
    /\ pc = "Succeeded" =>
          /\ DOMAIN ret = ResultKeys
          /\ ret.input_video = input_video
          /\ ret.frame_count = Len(extracted_frames)
          /\ ret.fps = VideoMeta(input_video).fps
          /\ ret.resolution = <<VideoMeta(input_video).width, VideoMeta(input_video).height>>
          /\ ret.output_mp4 = Mp4Path(output_dir)
          /\ ret.output_mp4 \in DOMAIN fs
          /\ ret.output_webm \in {None, WebmPath(output_dir)}
          /\ ret.frames_dir = <<output_dir, "frames">>
          /\ ret.processed_frames_dir = <<output_dir, "processed_frames">>
    /\ (pc = "Pending" /\ raised = "" /\ results # <<>>) =>
          /\ DOMAIN LastResult = ResultKeys \cup {"status", "processing_time", "video_name"}
          /\ LastResult.status = "success"
          /\ LastResult.processing_time = now - start_time
          /\ LastResult.processing_time > 0
          /\ \A key \in ResultKeys : LastResult[key] = ret[key]

\* C18 witness: process_video has returned the result of a run of two frames with
\* a WebM export
C18_Witness ==
    /\ pc = "Succeeded"
    /\ ret.frame_count = 2
    /\ ret.output_webm = WebmPath(output_dir)

(* ------------------------------ C19, C20 ------------------------------ *)
\* C19: a pixel with alpha 255 is handed to the encoder with each colour channel
\* equal to its source value, for every source value in 0..255
C19_OpaqueIdentity ==
    (out # None /\ Len(img) = 4 /\ img[4] = 255) => out = <<img[1], img[2], img[3]>>

\* an opaque pixel that is neither black nor white has been written
C19_Witness ==
    /\ out # None
    /\ img = <<128, 200, 128, 255>>

\* C20: a pixel with alpha 0 is handed to the encoder as (255, 255, 255), whatever
\* its source colour
C20_TransparentWhite ==
    (out # None /\ Len(img) = 4 /\ img[4] = 0) => out = <<255, 255, 255>>

\* a fully transparent pixel that is not white has been written
C20_Witness ==
    /\ out # None
    /\ img = <<0, 37, 0, 0>>

(* -------------------------------- C21 --------------------------------- *)
\* C21: the single-video main returns 0 exactly when process_video returned a
\* result, and 1 exactly when the input file is missing, the model could not be
\* loaded or a step of process_video raised
C21_RemoverExitCode ==
    mpc = "exited" =>
        /\ exit_code \in {<<0>>, <<1>>}
        /\ exit_code = <<0>> <=> pc = "Succeeded"
        /\ exit_code = <<1>> <=> (~InputExists \/ raised # "")
        /\ pc = "Succeeded" => (raised = "" /\ DOMAIN ret = ResultKeys)

\* main has returned 1 after the second frame failed in segmentation
C21_Witness ==
    /\ mpc = "exited"
    /\ exit_code = <<1>>
    /\ raised = "segmentation failed"
    /\ Len(segCalls) = 2

(* -------------------------------- C22 --------------------------------- *)
\* the frames out.write has received so far in the current run
EncodedFrames == fs[Mp4Path(output_dir)][2]

\* the ordinal of the decoded frame an encoded frame was made from
SourceOrdinal(frame) == frame[2][2][3]

\* create_transparent_video has opened the writer in the current run
AssemblyStarted == pc \in {"asm_write", "webm", "return", "Succeeded"}

\* C22: the frames handed to the encoder are in strictly increasing ordinal order,
\* each is the flattened processed frame of its ordinal, and every processed frame
\* the loop has passed is either among them or was reported by a warning; a run
\* that succeeded has passed every processed frame
C22_NoSilentDrop ==
    AssemblyStarted =>
        /\ \A j \in 1..(Len(EncodedFrames) - 1) :
              SourceOrdinal(EncodedFrames[j]) < SourceOrdinal(EncodedFrames[j + 1])
        /\ \A k \in 0..(asm_i - 1) :
              \/ k \in warned
              \/ \E j \in 1..Len(EncodedFrames) :
                    /\ SourceOrdinal(EncodedFrames[j]) = k
                    /\ EncodedFrames[j] = Flattened(fs[processed_frames[k + 1]])
        /\ Len(EncodedFrames) + Cardinality(warned) = asm_i
        /\ pc = "Succeeded" => asm_i = Len(processed_frames)

\* a run succeeded whose first processed frame could not be read and whose second
\* one was written
C22_Witness ==
    /\ pc = "Succeeded"
    /\ Len(processed_frames) = 2
    /\ warned = {0}
    /\ Len(EncodedFrames) = 1

(* -------------------------------- C23 --------------------------------- *)
\* C23: when the opaque video writer could not be opened, no processed frame was
\* read, warned about or written, no output video was produced, the transcoder was
\* not invoked in the run, and the job ends Failed and is recorded as failed
C23_WriterNotOpened ==
    raised = "cannot create video file" =>
        /\ pc \in {"Failed", "Pending"}
        /\ asmCalls = 1
        /\ asm_i = 0
        /\ warned = {}
        /\ ffmpegCalls = <<>>
        /\ \A k \in 1..Len(written) : written[k] \notin {Mp4Path(output_dir), WebmPath(output_dir)}
        /\ ret = None
        /\ pc = "Pending" => LastResult.status = "failed"

\* the writer could not be opened in a run that had segmented two frames and was
\* asked for a WebM export
C23_Witness ==
    /\ pc = "Failed"
    /\ raised = "cannot create video file"
    /\ Len(processed_frames) = 2
    /\ create_webm

(* -------------------------------- C24 --------------------------------- *)
\* C24: when the header declares more frames than decode and cap.read() fails at
\* frame N before any cap is reached, extract_frames has returned, without an
\* exception, frame_count = N and the N frames of ordinals 0..N-1 decoded before
CapNotBefore(n) == Truthy(max_frames) => max_frames[1] >= n

C24_PartialExtraction ==
    (ExtractionReturned /\ cap_frames > cap_n /\ CapNotBefore(cap_n)) =>
        /\ frame_count = cap_n
        /\ Len(extracted_frames) = cap_n
        /\ \A i \in 0..(cap_n - 1) :
              /\ IsOrdinalPath(extracted_frames[i + 1], output_dir, "frames", "frame_", i)
              /\ fs[extracted_frames[i + 1]] = RawFrame(input_video, i)
        /\ pc = "Failed" => raised \in {"segmentation failed", "cannot create video file"}
        /\ (pc = "segment" /\ segCalls = <<>>) => raised = ""

\* extract_frames has returned two frames of a container that declares three
C24_Witness ==
    /\ pc = "segment"
    /\ segCalls = <<>>
    /\ cap_frames = 3
    /\ cap_n = 2
    /\ frame_count = 2
    /\ max_frames = None

(* -------------------------------- C25 --------------------------------- *)
\* C25: when the container could not be opened, the run wrote no file at all, made
\* no segmentation call, no assembly call and no transcoder call, returned no
\* result, and the job ends Failed and is recorded as failed
C25_CannotOpen ==
    raised = "cannot open video file" =>
        /\ pc \in {"Failed", "Pending"}
        /\ written = <<>>
        /\ extracted_frames = <<>>
        /\ frame_count = 0
        /\ segCalls = <<>>
        /\ asmCalls = 0
        /\ ffmpegCalls = <<>>
        /\ ret = None
        /\ pc = "Pending" => LastResult.status = "failed"

\* a container that could not be opened, in a job asked for a WebM export and
\* recorded by the batch
C25_Witness ==
    /\ pc = "Pending"
    /\ raised = "cannot open video file"
    /\ create_webm
    /\ Len(results) = 1
    /\ LastResult.status = "failed"

(* -------------------------------- C26 --------------------------------- *)
\* C26: new_session has created at most one session, exactly one once the
\* processor is constructed, however many videos and frames were processed since;
\* self.session is that session and every rembg.remove call was handed it
C26_OneSession ==
    /\ sessions <= 1
    /\ session = IF sessions = 1 THEN <<1>> ELSE None
    /\ mpc \in {"call", "batch"} => sessions = 1
    /\ Len(runs) >= 1 => sessions = 1
    /\ usedSessions \subseteq {session}
    /\ segCalls # <<>> => usedSessions = {<<1>>}

\* a batch of two videos, the second of two frames, all segmented by one session
C26_Witness ==
    /\ Len(results) = 2
    /\ Len(runs) = 2
    /\ Len(segCalls) = 2
    /\ sessions = 1
    /\ usedSessions = {<<1>>}

(* -------------------------------- C27 --------------------------------- *)
\* C27: at most one worker thread is alive; while one is, whether or not stop was
\* clicked, the start button is disabled, so no click can start a second job
C27_OneWorker ==
    /\ threads \in {0, 1}
    /\ threads = 1 <=> gpc \in {"started", "running"}
    /\ threads = 1 => process_button = "disabled"

\* the second job of the window is running after stop was clicked during it
C27_Witness ==
    /\ Len(runs) = 2
    /\ gpc = "running"
    /\ pc = "segment"
    /\ stop_at # None
    /\ ~processing
    /\ threads = 1

(* -------------------------------- C28 --------------------------------- *)
\* the window is idle: the flag is down, start is enabled and stop is disabled
InterfaceIdle ==
    /\ ~processing
    /\ process_button = "normal"
    /\ stop_button = "disabled"

\* process_video has returned or raised in the worker thread
JobEnded == gpc = "running" /\ pc \in {"Succeeded", "Failed"}

\* C28: every job whose process_video has returned or raised is followed by an
\* idle window, whether or not stop was clicked
C28_BackToIdle == JobEnded ~> InterfaceIdle

\* the part of C28 about a job whose process_video returned its result
C28_ReturnedBackToIdle == (JobEnded /\ pc = "Succeeded") ~> InterfaceIdle

(* -------------------------------- C29 --------------------------------- *)
\* C29: when process_video has succeeded, the frame_count of its result is the
\* number of extracted frames, the number of processed frames and the number of
\* frames written into the opaque video
C29_CountsAgree ==
    pc = "Succeeded" =>
        /\ ret.frame_count = Len(extracted_frames)
        /\ ret.frame_count = Len(processed_frames)
        /\ ret.frame_count = Len(EncodedFrames)

\* the part of C29 that the frames skipped with a warning account for
C29_CountsAgreeButWarned ==
    pc = "Succeeded" =>
        /\ ret.frame_count = Len(extracted_frames)
        /\ ret.frame_count = Len(processed_frames)
        /\ ret.frame_count = Len(EncodedFrames) + Cardinality(warned)

(* -------------------------------- C30 --------------------------------- *)
\* C30: with max_frames = 0, as with max_frames = None, extract_frames has
\* returned every frame the container decodes: frame_count is their number N, the
\* N files hold ordinals 0..N-1, and total_frames was not clamped
C30_ZeroIsNoCap ==
    (ExtractionReturned /\ max_frames \in {None, <<0>>}) =>
        /\ frame_count = cap_n
        /\ Len(extracted_frames) = cap_n
        /\ total_frames = cap_frames
        /\ \A i \in 0..(cap_n - 1) :
              fs[extracted_frames[i + 1]] = RawFrame(input_video, i)

\* extract_frames has returned the two frames of a container under max_frames = 0
C30_Witness ==
    /\ max_frames = <<0>>
    /\ pc = "segment"
    /\ segCalls = <<>>
    /\ cap_n = 2
    /\ cap_frames = 2
    /\ frame_count = 2

====
